---------------------------- MODULE Spec2Model ----------------------------
(***************************************************************************)
(* Model of the multi-threaded library management system of                *)
(* src/MP2_Problem_2.cpp (lines 422-1206): the writer-preferring RWLock,   *)
(* the catalog `books`, the account ledgers `borrowedBookIds` and the      *)
(* Library operations.  Every session is a thread running                  *)
(* Library::userSession on the one shared Library object.  The LockMonitor *)
(* of the hospital management system (lines 1-420) and the manager         *)
(* operations that set its flags are modelled as well (SpecMon).           *)
(*                                                                         *)
(* A thread's position is pc[t] (the statement it is at) and lk[t] (how    *)
(* far it is inside the RWLock method called at that statement).           *)
(***************************************************************************)
EXTENDS Integers, Sequences, FiniteSets, TLC

\* ------------------------------------------------------------- bounds
NumThreads == 3
MaxBooks == 2
MaxAdds == 3
MaxAccounts == 2
MaxLoans == 1
MaxCount == 2

Threads == 1..NumThreads
\* One session per account: thread a + 1 runs the session of accounts[a].
Sessions == 1..MaxAccounts
SessionAccount(t) == t - 1
Titles == {"T1", "T2"}
Authors == {"A1"}
Quantities == {-1, 0, 1}

VARIABLES
    pc,              \* pc[t]: the statement thread t is at
    lk,              \* lk[t]: phase inside the RWLock method called at pc[t]
    mtx,             \* RWLock::mtx: 0 (free) or the thread that owns it
    activeReaders,   \* RWLock::activeReaders
    waitingWriters,  \* RWLock::waitingWriters
    writerActive,    \* RWLock::writerActive
    books,           \* Library::books, a sequence of Book records
    ledger,          \* ledger[a]: accounts[a].borrowedBookIds (index a = idx)
    currentUserIdx,  \* Library::currentUserIdx
    io_mutex,        \* the global io_mutex: 0 or its owner
    updateMutex,     \* Library::updateMutex (recursive): 0 or its owner
    cvMutex,         \* Library::cvMutex: 0 or its owner
    sess,            \* sess[t]: the idx argument of t's userSession, -1 if none
    title,           \* title[t]: the local `t` (title typed in) of t's operation
    uid,             \* uid[t]: the local `uid` of borrowBook / returnBook
    idx,             \* idx[t]: the local `idx` (1-based; 0 is the code's -1)
    nextKey,         \* history: number of records ever added, plus one
    sum0,            \* history: sum0[t][i]: count plus loans of books[i] when
                     \* t's borrowBook / returnBook started
    held,            \* history: held[a][k]: Borrows of the record added k-th
                     \* completed by the session of account a, minus its
                     \* Returns of that record (counted up to MaxLoans)
    maxIssued,       \* history: the greatest id addBook has given so far
    lockMonitor,     \* the global lockMonitor: its three atomic<bool> flags
    patientMutex,    \* PatientManager::patientMutex (shared_mutex):
                     \* [writer: 0 or its owner, readers: the shared owners]
    appMutex,        \* AppointmentManager::appMutex: 0 or its owner
    recordMutex      \* RecordManager::recordMutex: 0 or its owner

vars == <<pc, lk, mtx, activeReaders, waitingWriters, writerActive, books,
          ledger, currentUserIdx, io_mutex, updateMutex, cvMutex,
          sess, title, uid, idx, nextKey, sum0, held, maxIssued,
          lockMonitor, patientMutex, appMutex, recordMutex>>

rwVars == <<mtx, activeReaders, waitingWriters, writerActive>>
libVars == <<books, ledger, currentUserIdx, io_mutex, updateMutex,
             cvMutex, sess, title, uid, idx, nextKey, sum0, held, maxIssued>>
\* The hospital management system of lines 1-420: the LockMonitor flags and
\* the mutexes of the three managers.
monVars == <<lockMonitor, patientMutex, appMutex, recordMutex>>

NoTitle == "-"

\* ------------------------------------------------------ statement labels
\* Statements that are a call of RWLock::lockRead.
LockReadSites == {"h_lockRead", "list_lockRead", "chk_lockRead", "b_pred_lockRead"}
\* Statements that are a call of RWLock::unlockRead.
UnlockReadSites == {"h_unlockRead", "list_unlockRead", "chk_unlockRead",
                    "b_predT_unlockRead", "b_predF_unlockRead"}
\* Statements that are a call of RWLock::lockWrite.
LockWriteSites == {"h_lockWrite", "add_lockWrite", "upd_lockWrite", "rm_lockWrite",
                   "b_lockWrite", "r_lockWrite"}
\* Statements that are a call of RWLock::unlockWrite.
UnlockWriteSites == {"h_unlockWrite", "add_unlockWrite", "upd_unlockWrite",
                     "upd_nf_unlockWrite", "rm_unlockWrite", "rm_nf_unlockWrite",
                     "b_nf_unlockWrite", "b_oos_unlockWrite", "b_unlockWrite",
                     "b_un_unlockWrite", "r_nf_unlockWrite", "r_ok_unlockWrite",
                     "r_nb_unlockWrite", "dls_unlockWrite"}
\* Statements that are a call of RWLock::tryLockWrite.
TryLockWriteSites == {"h_tryLockWrite", "b_try", "dls_try"}

LockSites == LockReadSites \cup UnlockReadSites \cup LockWriteSites
             \cup UnlockWriteSites \cup TryLockWriteSites

\* The statement that follows the RWLock call at statement s (for
\* tryLockWrite: when it returned true).
After(s) ==
    CASE s = "h_lockRead" -> "h_reading"
      [] s = "h_unlockRead" -> "idle"
      [] s = "h_lockWrite" -> "h_writing"
      [] s = "h_tryLockWrite" -> "h_writing"
      [] s = "h_unlockWrite" -> "idle"
      [] s = "list_lockRead" -> "list_read"
      [] s = "list_unlockRead" -> "ret"
      [] s = "chk_lockRead" -> "chk_read"
      [] s = "chk_unlockRead" -> "ret"
      [] s = "add_lockWrite" -> "add_push"
      [] s = "add_unlockWrite" -> "ret"
      [] s = "upd_lockWrite" -> "upd_find"
      [] s = "upd_nf_unlockWrite" -> "ret_NotFound"
      [] s = "upd_unlockWrite" -> "ret_Ok"
      [] s = "rm_lockWrite" -> "rm_find"
      [] s = "rm_nf_unlockWrite" -> "ret_NotFound"
      [] s = "rm_unlockWrite" -> "ret_Ok"
      [] s = "b_try" -> "b_find"
      [] s = "b_nf_unlockWrite" -> "ret_NotFound"
      [] s = "b_oos_unlockWrite" -> "b_cvlock"
      [] s = "b_pred_lockRead" -> "b_pred_eval"
      [] s = "b_predT_unlockRead" -> "b_lockWrite"
      [] s = "b_predF_unlockRead" -> "b_wait"
      [] s = "b_lockWrite" -> "b_refind"
      [] s = "b_unlockWrite" -> "ret_Ok"
      [] s = "b_un_unlockWrite" -> "ret_Unavailable"
      [] s = "r_lockWrite" -> "r_find"
      [] s = "r_nf_unlockWrite" -> "ret_NotFound"
      [] s = "r_ok_unlockWrite" -> "r_ok_notify"
      [] s = "r_nb_unlockWrite" -> "r_nb_notify"
      [] s = "dls_try" -> "dls_unlockWrite"
      [] s = "dls_unlockWrite" -> "dls_free"
      [] OTHER -> "idle"

\* Variant: borrowBook without the test of line 877, going on to line 883
\* whatever tryLockWrite returned.
AfterFailProceeds(s) ==
    CASE s = "h_tryLockWrite" -> "idle"
      [] s = "b_try" -> "b_find"
      [] s = "dls_try" -> "dls_held"
      [] OTHER -> "idle"

\* The statement that follows a tryLockWrite that returned false.
AfterFail(s) ==
    CASE s = "h_tryLockWrite" -> "idle"
      [] s = "b_try" -> "ret_Busy"
      [] s = "dls_try" -> "dls_held"
      [] OTHER -> "idle"

\* Thread t goes to statement s; a call of an RWLock method starts at the
\* method's first line (phase "call": about to lock mtx).
Goto(t, s) ==
    /\ pc' = [pc EXCEPT ![t] = s]
    /\ lk' = [lk EXCEPT ![t] = IF s \in LockSites THEN "call" ELSE "-"]

\* cv.notify_all(): every thread blocked in cv.wait is woken; thread t, the
\* caller, goes to statement s.
NotifyAllGoto(t, s) ==
    /\ pc' = [pc EXCEPT ![t] = s]
    /\ lk' = [u \in Threads |->
                IF u = t THEN (IF s \in LockSites THEN "call" ELSE "-")
                ELSE IF lk[u] = "wait" THEN "woken" ELSE lk[u]]

\* ---------------------------------------------------------------- RWLock
\* unique_lock<mutex> lk(mtx) of lockRead, unlockRead, lockWrite, unlockWrite:
\* blocks until mtx is free.
MtxLock(t) ==
    /\ pc[t] \in LockSites \ TryLockWriteSites
    /\ lk[t] = "call"
    /\ mtx = 0
    /\ mtx' = t
    /\ lk' = [lk EXCEPT ![t] = "mtx"]
    /\ UNCHANGED <<pc, activeReaders, waitingWriters, writerActive, libVars, monVars>>

\* A thread blocked in cv.wait that was woken locks mtx again before it
\* re-evaluates its predicate.
MtxRelock(t) ==
    /\ pc[t] \in LockReadSites \cup LockWriteSites
    /\ lk[t] = "woken"
    /\ mtx = 0
    /\ mtx' = t
    /\ lk' = [lk EXCEPT ![t] = "chk"]
    /\ UNCHANGED <<pc, activeReaders, waitingWriters, writerActive, libVars, monVars>>

\* condition_variable::wait may return without a notification.
SpuriousWake(t) ==
    /\ pc[t] \in LockReadSites \cup LockWriteSites
    /\ lk[t] = "wait"
    /\ lk' = [lk EXCEPT ![t] = "woken"]
    /\ UNCHANGED <<pc, rwVars, libVars, monVars>>

\* The predicate of lockRead's wait.
LockReadPredNoQueue == ~writerActive
LockReadPredNoWriter == waitingWriters = 0
LockReadPredExclusive == ~writerActive /\ waitingWriters = 0 /\ activeReaders = 0
LockReadPred == ~writerActive /\ waitingWriters = 0

\* The predicate of lockWrite's wait.
LockWritePredNoReaders == ~writerActive
LockWritePred == ~writerActive /\ activeReaders = 0

\* The condition under which tryLockWrite, owning mtx, takes the lock.
TryLockWritePredNoReaders == ~writerActive
TryLockWritePredNoWriter == activeReaders = 0
TryLockWritePred == ~(writerActive \/ activeReaders > 0)

\* lockRead with mtx held: wait for the predicate, then ++activeReaders.
LockReadBody(t) ==
    /\ pc[t] \in LockReadSites
    /\ lk[t] \in {"mtx", "chk"}
    /\ mtx = t
    /\ mtx' = 0
    /\ IF LockReadPred
         THEN /\ activeReaders' = activeReaders + 1
              /\ Goto(t, After(pc[t]))
         ELSE /\ lk' = [lk EXCEPT ![t] = "wait"]
              /\ UNCHANGED <<pc, activeReaders>>
    /\ UNCHANGED <<waitingWriters, writerActive, libVars, monVars>>

\* unlockRead with mtx held: --activeReaders, notify_all when it reaches 0.
UnlockReadBody(t) ==
    /\ pc[t] \in UnlockReadSites
    /\ lk[t] = "mtx"
    /\ mtx = t
    /\ mtx' = 0
    /\ activeReaders' = activeReaders - 1
    /\ IF activeReaders - 1 = 0
         THEN NotifyAllGoto(t, After(pc[t]))
         ELSE Goto(t, After(pc[t]))
    /\ UNCHANGED <<waitingWriters, writerActive, libVars, monVars>>

\* lockWrite with mtx held: ++waitingWriters on entry, wait for the
\* predicate, then --waitingWriters and writerActive = true.
LockWriteBody(t) ==
    /\ pc[t] \in LockWriteSites
    /\ lk[t] \in {"mtx", "chk"}
    /\ mtx = t
    /\ mtx' = 0
    /\ LET queued == IF lk[t] = "mtx" THEN waitingWriters + 1 ELSE waitingWriters
       IN IF LockWritePred
            THEN /\ waitingWriters' = queued - 1
                 /\ writerActive' = TRUE
                 /\ Goto(t, After(pc[t]))
            ELSE /\ waitingWriters' = queued
                 /\ lk' = [lk EXCEPT ![t] = "wait"]
                 /\ UNCHANGED <<pc, writerActive>>
    /\ UNCHANGED <<activeReaders, libVars, monVars>>

\* unlockWrite with mtx held: writerActive = false, notify_all.
UnlockWriteBody(t) ==
    /\ pc[t] \in UnlockWriteSites
    /\ lk[t] = "mtx"
    /\ mtx = t
    /\ mtx' = 0
    /\ writerActive' = FALSE
    /\ NotifyAllGoto(t, After(pc[t]))
    /\ UNCHANGED <<activeReaders, waitingWriters, libVars, monVars>>

\* unique_lock<mutex> lk(mtx, try_to_lock) of tryLockWrite: it owns mtx only
\* if mtx was free; otherwise tryLockWrite returns false at once.
TryMtx(t) ==
    /\ pc[t] \in TryLockWriteSites
    /\ lk[t] = "call"
    /\ IF mtx = 0
         THEN /\ mtx' = t
              /\ lk' = [lk EXCEPT ![t] = "mtx"]
              /\ UNCHANGED pc
         ELSE /\ Goto(t, AfterFail(pc[t]))
              /\ UNCHANGED mtx
    /\ UNCHANGED <<activeReaders, waitingWriters, writerActive, libVars, monVars>>

\* Variant: a tryLockWrite that counts itself as a waiting writer when it
\* fails.
TryLockWriteBodyQueues(t) ==
    /\ pc[t] \in TryLockWriteSites
    /\ lk[t] = "mtx"
    /\ mtx = t
    /\ mtx' = 0
    /\ IF TryLockWritePred
         THEN /\ writerActive' = TRUE
              /\ Goto(t, After(pc[t]))
              /\ UNCHANGED waitingWriters
         ELSE /\ Goto(t, AfterFail(pc[t]))
              /\ waitingWriters' = waitingWriters + 1
              /\ UNCHANGED writerActive
    /\ UNCHANGED <<activeReaders, libVars, monVars>>

\* tryLockWrite with mtx owned.
TryLockWriteBody(t) ==
    /\ pc[t] \in TryLockWriteSites
    /\ lk[t] = "mtx"
    /\ mtx = t
    /\ mtx' = 0
    /\ IF TryLockWritePred
         THEN /\ writerActive' = TRUE
              /\ Goto(t, After(pc[t]))
         ELSE /\ Goto(t, AfterFail(pc[t]))
              /\ UNCHANGED writerActive
    /\ UNCHANGED <<activeReaders, waitingWriters, libVars, monVars>>

\* One step of an RWLock method by thread t.
RWStep(t) ==
    \/ MtxLock(t)
    \/ MtxRelock(t)
    \/ LockReadBody(t)
    \/ UnlockReadBody(t)
    \/ LockWriteBody(t)
    \/ UnlockWriteBody(t)
    \/ TryMtx(t)
    \/ TryLockWriteBody(t)

\* ------------------------------------------------- RWLock used on its own
\* Threads that use one RWLock through its public methods, each releasing
\* what it acquired: lockRead .. unlockRead, lockWrite .. unlockWrite, and
\* tryLockWrite .. unlockWrite when tryLockWrite returned true.
HCall(t, s) ==
    /\ pc[t] = "idle"
    /\ s \in {"h_lockRead", "h_lockWrite", "h_tryLockWrite"}
    /\ Goto(t, s)
    /\ UNCHANGED <<rwVars, libVars, monVars>>

HRelease(t) ==
    /\ \/ pc[t] = "h_reading" /\ Goto(t, "h_unlockRead")
       \/ pc[t] = "h_writing" /\ Goto(t, "h_unlockWrite")
    /\ UNCHANGED <<rwVars, libVars, monVars>>

\* ------------------------------------------------------------- Library
\* Number of registered accounts; accounts[a] has a = 0 .. NumAccounts - 1,
\* and accounts[0] is the admin the constructor creates.
NumAccounts == Cardinality(DOMAIN ledger)
isAdmin(a) == a = 0

\* Variant: a lookup that returns the last record with this title.
findBookIndexLast(tt) ==
    IF \E i \in 1..Len(books) : books[i].title = tt
      THEN CHOOSE i \in 1..Len(books) :
             /\ books[i].title = tt
             /\ \A j \in (i + 1)..Len(books) : books[j].title # tt
      ELSE 0

\* Library::findBookIndex: the first record with this title (0: none).
findBookIndex(tt) ==
    IF \E i \in 1..Len(books) : books[i].title = tt
      THEN CHOOSE i \in 1..Len(books) :
             /\ books[i].title = tt
             /\ \A j \in 1..(i - 1) : books[j].title # tt
      ELSE 0

\* The id addBook gives the record it appends.
NewBookIdFresh == nextKey
NewBookId == Len(books) + 1

\* vector::erase of position i.
EraseAt(s, i) == [j \in 1..(Len(s) - 1) |-> IF j < i THEN s[j] ELSE s[j + 1]]

\* Position of the first element equal to x (std::find), 0 when absent.
FindFirst(s, x) ==
    IF \E i \in 1..Len(s) : s[i] = x
      THEN CHOOSE i \in 1..Len(s) : s[i] = x /\ \A j \in 1..(i - 1) : s[j] # x
      ELSE 0

\* Number of ids in all ledgers.
RECURSIVE SumLen(_, _)
SumLen(f, S) ==
    IF S = {} THEN 0
    ELSE LET a == CHOOSE x \in S : TRUE IN Len(f[a]) + SumLen(f, S \ {a})
TotalLoans == SumLen(ledger, DOMAIN ledger)

\* Number of times id x is in ledger s.
Occurrences(s, x) == Cardinality({j \in 1..Len(s) : s[j] = x})

RECURSIVE SumOcc(_, _, _)
SumOcc(f, S, x) ==
    IF S = {} THEN 0
    ELSE LET a == CHOOSE y \in S : TRUE
         IN Occurrences(f[a], x) + SumOcc(f, S \ {a}, x)

\* books[i].count plus the number of ledger entries, over all accounts,
\* that are the id of books[i].
ItemSum(i) == books[i].count + SumOcc(ledger, DOMAIN ledger, books[i].id)

\* Library::registerUser: accounts.push_back of a non-admin account with an
\* empty ledger.  As in main(), it runs only while no session is running.
RegisterUser(t) ==
    /\ pc[t] = "idle"
    /\ \A u \in Sessions : sess[u] = -1
    /\ NumAccounts < MaxAccounts
    /\ ledger' = [a \in 0..NumAccounts |-> IF a < NumAccounts THEN ledger[a] ELSE <<>>]
    /\ UNCHANGED <<pc, lk, rwVars, books, currentUserIdx, io_mutex, updateMutex,
                   cvMutex, sess, title, uid, idx, nextKey, sum0, held,
                   maxIssued, monVars>>

\* Library::loginUser returning idx = a, then userSession(a), line 1021:
\* currentUserIdx = idx.
LoginUser(t, a) ==
    /\ pc[t] = "idle"
    /\ a = SessionAccount(t)
    /\ a \in DOMAIN ledger
    /\ sess' = [sess EXCEPT ![t] = a]
    /\ currentUserIdx' = a
    /\ Goto(t, "menu")
    /\ UNCHANGED <<rwVars, books, ledger, io_mutex, updateMutex, cvMutex, title,
                   uid, idx, nextKey, sum0, held, maxIssued, monVars>>

\* The operations of the admin menu and of the user menu of userSession
\* that lock io_mutex first, and the statement each continues with.
AdminOps == {"add", "upd", "rm", "list"}
UserOps == {"b", "r", "chk"}
AfterIo(s) ==
    CASE s = "add" -> "add_lockWrite"
      [] s = "upd" -> "upd_lockWrite"
      [] s = "rm" -> "rm_lockWrite"
      [] s = "list" -> "list_lockRead"
      [] s = "b" -> "b_try"
      [] s = "r" -> "r_lockWrite"
      [] s = "chk" -> "chk_lockRead"
      [] OTHER -> "idle"

\* userSession calls operation s of its menu.  The operation starts with
\* lock_guard<mutex> io(io_mutex) (updateBook: after
\* lock_guard<recursive_mutex> rec(updateMutex)), which blocks until the
\* mutex is free, then reads the title tt; borrowBook and returnBook first
\* copy currentUserIdx into uid.
StartOp(t, s, tt) ==
    /\ pc[t] = "menu"
    /\ s \in (IF isAdmin(sess[t]) THEN AdminOps ELSE UserOps)
    /\ s = "add" => Len(books) < MaxBooks /\ nextKey <= MaxAdds
    /\ s = "b" => TotalLoans < MaxLoans
    /\ s = "r" => \A i \in 1..Len(books) : books[i].count < MaxCount
    /\ io_mutex = 0
    /\ io_mutex' = t
    /\ s = "upd" => updateMutex \in {0, t}
    /\ updateMutex' = IF s = "upd" THEN t ELSE updateMutex
    /\ tt \in (IF s \in {"add", "list"} THEN {NoTitle} ELSE Titles)
    /\ title' = [title EXCEPT ![t] = tt]
    /\ uid' = [uid EXCEPT ![t] = IF s \in {"b", "r"} THEN currentUserIdx ELSE -1]
    /\ sum0' = [sum0 EXCEPT ![t] = IF s \in {"b", "r"}
                                      THEN [i \in 1..Len(books) |-> ItemSum(i)]
                                      ELSE <<>>]
    /\ Goto(t, AfterIo(s))
    /\ UNCHANGED <<rwVars, books, ledger, currentUserIdx, cvMutex, sess, idx,
                   nextKey, held, maxIssued, monVars>>

\* userSession calls displayLockStatus, which starts with tryLockWrite and
\* locks io_mutex only to print.
StartDls(t) ==
    /\ pc[t] = "menu"
    /\ isAdmin(sess[t])
    /\ Goto(t, "dls_try")
    /\ UNCHANGED <<rwVars, libVars, monVars>>

\* The operation returns: its lock_guards release io_mutex (and updateMutex).
RetSites == {"ret", "ret_Ok", "ret_NotFound", "ret_Busy", "ret_Unavailable",
             "ret_NotBorrowed"}
Ret(t) ==
    /\ pc[t] \in RetSites
    /\ io_mutex' = 0
    /\ updateMutex' = IF updateMutex = t THEN 0 ELSE updateMutex
    /\ title' = [title EXCEPT ![t] = NoTitle]
    /\ uid' = [uid EXCEPT ![t] = -1]
    /\ idx' = [idx EXCEPT ![t] = 0]
    /\ sum0' = [sum0 EXCEPT ![t] = <<>>]
    /\ Goto(t, "menu")
    /\ UNCHANGED <<rwVars, books, ledger, currentUserIdx, cvMutex, sess,
                   nextKey, held, maxIssued, monVars>>

\* addBook, line 810: books.push_back with the title, author and quantity
\* typed in.
AddPush(t, tt, au, q) ==
    /\ pc[t] = "add_push"
    /\ books' = Append(books, [title |-> tt, author |-> au, count |-> q,
                               id |-> NewBookId, key |-> nextKey])
    /\ nextKey' = nextKey + 1
    /\ maxIssued' = IF NewBookId > maxIssued THEN NewBookId ELSE maxIssued
    /\ Goto(t, "add_unlockWrite")
    /\ UNCHANGED <<rwVars, ledger, currentUserIdx, io_mutex, updateMutex,
                   cvMutex, sess, title, uid, idx, sum0, held, monVars>>

\* updateBook, lines 826-832.
UpdFind(t) ==
    /\ pc[t] = "upd_find"
    /\ idx' = [idx EXCEPT ![t] = findBookIndex(title[t])]
    /\ IF findBookIndex(title[t]) = 0
         THEN Goto(t, "upd_nf_unlockWrite")
         ELSE Goto(t, "upd_title")
    /\ UNCHANGED <<rwVars, books, ledger, currentUserIdx, io_mutex,
                   updateMutex, cvMutex, sess, title, uid, nextKey, sum0, held,
                   maxIssued, monVars>>

\* updateBook, line 834: getline into books[idx].title.
UpdTitle(t, tt) ==
    /\ pc[t] = "upd_title"
    /\ books' = [books EXCEPT ![idx[t]].title = tt]
    /\ Goto(t, "upd_author")
    /\ UNCHANGED <<rwVars, ledger, currentUserIdx, io_mutex, updateMutex,
                   cvMutex, sess, title, uid, idx, nextKey, sum0, held,
                   maxIssued, monVars>>

\* Variant: an updateBook that gives the write lock up between two fields.
UpdAuthorReleases(t, au) ==
    /\ pc[t] = "upd_author"
    /\ books' = [books EXCEPT ![idx[t]].author = au]
    /\ writerActive' = FALSE
    /\ Goto(t, "upd_count")
    /\ UNCHANGED <<mtx, activeReaders, waitingWriters, ledger, currentUserIdx,
                   io_mutex, updateMutex, cvMutex, sess, title, uid, idx,
                   nextKey, sum0, held, maxIssued, monVars>>

\* updateBook, line 835: getline into books[idx].author.
UpdAuthor(t, au) ==
    /\ pc[t] = "upd_author"
    /\ books' = [books EXCEPT ![idx[t]].author = au]
    /\ Goto(t, "upd_count")
    /\ UNCHANGED <<rwVars, ledger, currentUserIdx, io_mutex, updateMutex,
                   cvMutex, sess, title, uid, idx, nextKey, sum0, held,
                   maxIssued, monVars>>

\* updateBook, line 836: cin >> books[idx].count.
UpdCount(t, q) ==
    /\ pc[t] = "upd_count"
    /\ books' = [books EXCEPT ![idx[t]].count = q]
    /\ Goto(t, "upd_unlockWrite")
    /\ UNCHANGED <<rwVars, ledger, currentUserIdx, io_mutex, updateMutex,
                   cvMutex, sess, title, uid, idx, nextKey, sum0, held,
                   maxIssued, monVars>>

\* removeBook, lines 852-860.
RmFind(t) ==
    /\ pc[t] = "rm_find"
    /\ idx' = [idx EXCEPT ![t] = findBookIndex(title[t])]
    /\ IF findBookIndex(title[t]) = 0
         THEN /\ Goto(t, "rm_nf_unlockWrite")
              /\ UNCHANGED books
         ELSE /\ books' = EraseAt(books, findBookIndex(title[t]))
              /\ Goto(t, "rm_unlockWrite")
    /\ UNCHANGED <<rwVars, ledger, currentUserIdx, io_mutex, updateMutex,
                   cvMutex, sess, title, uid, nextKey, sum0, held,
                   maxIssued, monVars>>

\* Variant: a listAllBooks that gives the read lock up after each record.
ListReadReleases(t) ==
    /\ pc[t] = "list_read"
    /\ IF idx[t] < Len(books)
         THEN /\ idx' = [idx EXCEPT ![t] = @ + 1]
              /\ activeReaders' = activeReaders - 1
              /\ UNCHANGED <<pc, lk>>
         ELSE /\ Goto(t, "list_unlockRead")
              /\ UNCHANGED <<idx, activeReaders>>
    /\ UNCHANGED <<mtx, waitingWriters, writerActive, books, ledger,
                   currentUserIdx, io_mutex, updateMutex, cvMutex, sess, title,
                   uid, nextKey, sum0, held, maxIssued, monVars>>

\* listAllBooks, lines 767-789: the loop of line 781 prints one record per
\* step (idx[t] records are printed so far), then line 791 follows.
ListRead(t) ==
    /\ pc[t] = "list_read"
    /\ IF idx[t] < Len(books)
         THEN /\ idx' = [idx EXCEPT ![t] = @ + 1]
              /\ UNCHANGED <<pc, lk>>
         ELSE /\ Goto(t, "list_unlockRead")
              /\ UNCHANGED idx
    /\ UNCHANGED <<rwVars, books, ledger, currentUserIdx, io_mutex,
                   updateMutex, cvMutex, sess, title, uid, nextKey, sum0, held,
                   maxIssued, monVars>>

\* checkAvailability, lines 977-982.
ChkRead(t) ==
    /\ pc[t] = "chk_read"
    /\ idx' = [idx EXCEPT ![t] = findBookIndex(title[t])]
    /\ Goto(t, "chk_unlockRead")
    /\ UNCHANGED <<rwVars, books, ledger, currentUserIdx, io_mutex,
                   updateMutex, cvMutex, sess, title, uid, nextKey, sum0, held,
                   maxIssued, monVars>>

\* Variant: borrowBook whose not-found exit returns without line 887.
BFindNoUnlock(t) ==
    /\ pc[t] = "b_find"
    /\ idx' = [idx EXCEPT ![t] = findBookIndex(title[t])]
    /\ IF findBookIndex(title[t]) = 0
         THEN Goto(t, "ret_NotFound")
         ELSE IF books[findBookIndex(title[t])].count = 0
                THEN Goto(t, "b_oos_unlockWrite")
                ELSE Goto(t, "b_commit")
    /\ UNCHANGED <<rwVars, books, ledger, currentUserIdx, io_mutex,
                   updateMutex, cvMutex, sess, title, uid, nextKey, sum0, held,
                   maxIssued, monVars>>

\* borrowBook, lines 883-894: not found, out of stock, or on to line 908.
BFind(t) ==
    /\ pc[t] = "b_find"
    /\ idx' = [idx EXCEPT ![t] = findBookIndex(title[t])]
    /\ IF findBookIndex(title[t]) = 0
         THEN Goto(t, "b_nf_unlockWrite")
         ELSE IF books[findBookIndex(title[t])].count = 0
                THEN Goto(t, "b_oos_unlockWrite")
                ELSE Goto(t, "b_commit")
    /\ UNCHANGED <<rwVars, books, ledger, currentUserIdx, io_mutex,
                   updateMutex, cvMutex, sess, title, uid, nextKey, sum0, held,
                   maxIssued, monVars>>

\* borrowBook, line 896: unique_lock<mutex> lk(cvMutex); a woken waiter locks
\* cvMutex again the same way before it re-evaluates the predicate.
BCvLock(t) ==
    /\ pc[t] \in {"b_cvlock", "b_woken"}
    /\ cvMutex = 0
    /\ cvMutex' = t
    /\ Goto(t, "b_pred_lockRead")
    /\ UNCHANGED <<rwVars, books, ledger, currentUserIdx, io_mutex,
                   updateMutex, sess, title, uid, idx, nextKey, sum0, held,
                   maxIssued, monVars>>

\* The predicate of the stock wait, line 899.
StockPredAnyTitle(tt) == \E i \in 1..Len(books) : books[i].count > 0
StockPred(tt) == findBookIndex(tt) > 0 /\ books[findBookIndex(tt)].count > 0

\* borrowBook, line 899, evaluated under the read lock.
BPredEval(t) ==
    /\ pc[t] = "b_pred_eval"
    /\ IF StockPred(title[t])
         THEN Goto(t, "b_predT_unlockRead")
         ELSE Goto(t, "b_predF_unlockRead")
    /\ UNCHANGED <<rwVars, libVars, monVars>>

\* bookCv.wait with a false predicate: cvMutex is released and the thread
\* blocks on bookCv.
BWait(t) ==
    /\ pc[t] = "b_wait"
    /\ cvMutex' = 0
    /\ Goto(t, "b_blocked")
    /\ UNCHANGED <<rwVars, books, ledger, currentUserIdx, io_mutex,
                   updateMutex, sess, title, uid, idx, nextKey, sum0, held,
                   maxIssued, monVars>>

\* bookCv.wait may return without a notification.
BSpuriousWake(t) ==
    /\ pc[t] = "b_blocked"
    /\ Goto(t, "b_woken")
    /\ UNCHANGED <<rwVars, libVars, monVars>>

\* The condition of line 908.
BorrowableAlways(i) == i > 0
Borrowable(i) == i > 0 /\ books[i].count > 0

\* borrowBook, lines 905-910 and 917-920.  After the stock wait (statement
\* "b_refind") idx = findBookIndex(t) is taken again and lk, the lock of
\* cvMutex, leaves scope.  Then --books[idx].count, or "Still unavailable".
BCommit(t) ==
    /\ pc[t] \in {"b_refind", "b_commit"}
    /\ LET i == IF pc[t] = "b_refind" THEN findBookIndex(title[t]) ELSE idx[t]
       IN /\ idx' = [idx EXCEPT ![t] = i]
          /\ IF Borrowable(i)
               THEN /\ books' = [books EXCEPT ![i].count = @ - 1]
                    /\ Goto(t, "b_push")
               ELSE /\ Goto(t, "b_un_unlockWrite")
                    /\ UNCHANGED books
    /\ cvMutex' = IF pc[t] = "b_refind" THEN 0 ELSE cvMutex
    /\ UNCHANGED <<rwVars, ledger, currentUserIdx, io_mutex, updateMutex,
                   sess, title, uid, nextKey, sum0, held, maxIssued, monVars>>

\* borrowBook, line 913: accounts[uid].borrowedBookIds.push_back(books[idx].id).
BPush(t) ==
    /\ pc[t] = "b_push"
    /\ ledger' = [ledger EXCEPT ![uid[t]] = Append(@, books[idx[t]].id)]
    /\ held' = [held EXCEPT ![sess[t]][books[idx[t]].key] =
                   IF @ < MaxLoans THEN @ + 1 ELSE @]
    /\ Goto(t, "b_unlockWrite")
    /\ UNCHANGED <<rwVars, books, currentUserIdx, io_mutex, updateMutex,
                   cvMutex, sess, title, uid, idx, nextKey, sum0,
                   maxIssued, monVars>>

\* The test of line 950: the ledger of accounts[uid] holds the record's id.
InLedgerAny(a, i) == TRUE
InLedger(a, i) == FindFirst(ledger[a], books[i].id) > 0

\* returnBook, lines 937-953: not found, not borrowed, or ++books[idx].count.
RFind(t) ==
    /\ pc[t] = "r_find"
    /\ idx' = [idx EXCEPT ![t] = findBookIndex(title[t])]
    /\ IF findBookIndex(title[t]) = 0
         THEN /\ Goto(t, "r_nf_unlockWrite")
              /\ UNCHANGED books
         ELSE IF InLedger(uid[t], findBookIndex(title[t]))
                THEN /\ books' = [books EXCEPT ![findBookIndex(title[t])].count = @ + 1]
                     /\ Goto(t, "r_erase")
                ELSE /\ Goto(t, "r_nb_unlockWrite")
                     /\ UNCHANGED books
    /\ UNCHANGED <<rwVars, ledger, currentUserIdx, io_mutex, updateMutex,
                   cvMutex, sess, title, uid, nextKey, sum0, held,
                   maxIssued, monVars>>

\* returnBook, line 954: loaned.erase(it).
RErase(t) ==
    /\ pc[t] = "r_erase"
    /\ ledger' = [ledger EXCEPT ![uid[t]] =
                     EraseAt(@, FindFirst(@, books[idx[t]].id))]
    /\ held' = [held EXCEPT ![sess[t]][books[idx[t]].key] =
                   IF @ > 0 THEN @ - 1 ELSE 0]
    /\ Goto(t, "r_ok_unlockWrite")
    /\ UNCHANGED <<rwVars, books, currentUserIdx, io_mutex, updateMutex,
                   cvMutex, sess, title, uid, idx, nextKey, sum0,
                   maxIssued, monVars>>

\* returnBook, line 965: bookCv.notify_all() wakes every thread blocked on
\* bookCv.
RNotify(t) ==
    /\ pc[t] \in {"r_ok_notify", "r_nb_notify"}
    /\ pc' = [u \in Threads |->
                IF u = t THEN (IF pc[t] = "r_ok_notify" THEN "ret_Ok" ELSE "ret_NotBorrowed")
                ELSE IF pc[u] = "b_blocked" THEN "b_woken" ELSE pc[u]]
    /\ UNCHANGED <<lk, rwVars, libVars, monVars>>

\* displayLockStatus, lines 993-994 and 998-999: the result is printed under
\* io_mutex, which is locked and released for the print alone.
DlsPrint(t) ==
    /\ pc[t] \in {"dls_free", "dls_held"}
    /\ io_mutex = 0
    /\ Goto(t, "menu")
    /\ UNCHANGED <<rwVars, libVars, monVars>>

\* One step of a Library operation by thread t.
LibStep(t) ==
    \/ Ret(t)
    \/ \E tt \in Titles : \E au \in Authors : \E q \in Quantities : AddPush(t, tt, au, q)
    \/ UpdFind(t)
    \/ \E tt \in Titles : UpdTitle(t, tt)
    \/ \E au \in Authors : UpdAuthor(t, au)
    \/ \E q \in Quantities : UpdCount(t, q)
    \/ RmFind(t)
    \/ ListRead(t)
    \/ ChkRead(t)
    \/ BFind(t)
    \/ BCvLock(t)
    \/ BPredEval(t)
    \/ BWait(t)
    \/ BCommit(t)
    \/ BPush(t)
    \/ RFind(t)
    \/ RErase(t)
    \/ RNotify(t)
    \/ DlsPrint(t)

Init ==
    /\ pc = [t \in Threads |-> "idle"]
    /\ lk = [t \in Threads |-> "-"]
    /\ mtx = 0
    /\ activeReaders = 0
    /\ waitingWriters = 0
    /\ writerActive = FALSE
    /\ books = <<>>
    /\ ledger = [a \in {0} |-> <<>>]
    /\ currentUserIdx = -1
    /\ io_mutex = 0
    /\ updateMutex = 0
    /\ cvMutex = 0
    /\ sess = [t \in Threads |-> -1]
    /\ title = [t \in Threads |-> NoTitle]
    /\ uid = [t \in Threads |-> -1]
    /\ idx = [t \in Threads |-> 0]
    /\ nextKey = 1
    /\ sum0 = [t \in Threads |-> <<>>]
    /\ held = [a \in 0..(MaxAccounts - 1) |-> [k \in 1..MaxAdds |-> 0]]
    /\ maxIssued = 0
    /\ lockMonitor = [patientLock |-> FALSE, appointmentLock |-> FALSE,
                      recordLock |-> FALSE]
    /\ patientMutex = [writer |-> 0, readers |-> {}]
    /\ appMutex = 0
    /\ recordMutex = 0

NextRW ==
    \/ \E t \in Threads : \E s \in {"h_lockRead", "h_lockWrite", "h_tryLockWrite"} :
          HCall(t, s)
    \/ \E t \in Threads : HRelease(t)
    \/ \E t \in Threads : RWStep(t)
    \/ \E t \in Threads : SpuriousWake(t)

SpecRW == Init /\ [][NextRW]_vars

\* Fair scheduling of the threads that use the RWLock: a thread that is again
\* and again able to take the next step of the RWLock method it is in (mtx
\* free for it to lock, or mtx owned) takes it, and a thread that holds the
\* lock calls its unlock.
FairRW ==
    \A t \in Threads : SF_vars(RWStep(t)) /\ WF_vars(HRelease(t))

SpecRWFair == Init /\ [][NextRW]_vars /\ FairRW

Next ==
    \/ \E t \in Sessions : RegisterUser(t)
    \/ \E t \in Sessions : \E a \in 0..(MaxAccounts - 1) : LoginUser(t, a)
    \/ \E t \in Sessions : \E s \in AdminOps \cup UserOps :
          \E tt \in Titles \cup {NoTitle} : StartOp(t, s, tt)
    \/ \E t \in Sessions : StartDls(t)
    \/ \E t \in Sessions : LibStep(t)
    \/ \E t \in Sessions : RWStep(t)
    \/ \E t \in Sessions : SpuriousWake(t)
    \/ \E t \in Sessions : BSpuriousWake(t)

Spec == Init /\ [][Next]_vars

\* ------------------------------------------------------------ RWLock claims
\* Threads that hold the read lock / the write lock.
ReadHolders == {t \in Threads : pc[t] \in {"h_reading", "h_unlockRead"}}
WriteHolders == {t \in Threads : pc[t] \in {"h_writing", "h_unlockWrite"}}
\* Threads queued in lockWrite: waitingWriters incremented, lock not taken.
QueuedWriters == {t \in Threads : pc[t] \in LockWriteSites
                                  /\ lk[t] \in {"wait", "woken", "chk"}}

\* C3: at most one thread holds the write lock, and no thread holds the read
\* lock while a thread holds the write lock, whichever of lockRead, lockWrite
\* and tryLockWrite granted it.
C3_MutualExclusion ==
    /\ Cardinality(WriteHolders) <= 1
    /\ WriteHolders # {} => ReadHolders = {}

C3_Witness ==
    /\ \E t \in Threads : pc[t] = "h_writing"
    /\ \E t \in Threads : pc[t] = "h_lockRead" /\ lk[t] = "wait"
    /\ \E t \in Threads : pc[t] = "h_lockWrite" /\ lk[t] = "wait"

\* C4: a step in which a lockRead completes (the caller becomes a reader)
\* starts in a state with no thread queued in lockWrite and no thread
\* holding the write lock: every writer that queued has acquired and released.
C4_WriterPreference ==
    [][\A r \in Threads :
          (pc[r] = "h_lockRead" /\ pc'[r] = "h_reading")
              => (QueuedWriters = {} /\ WriteHolders = {})]_vars

\* A reader blocked in lockRead behind a queued writer while the lock is
\* held by no writer (readers hold it).
C4_Witness ==
    /\ \E r \in Threads : pc[r] = "h_lockRead" /\ lk[r] = "wait"
    /\ QueuedWriters # {}
    /\ ~writerActive
    /\ activeReaders > 0

\* ------------------------------------------------------------ Library claims
\* Statements a thread is at while it holds the write lock of booksLock.
WriteLockedSites == {"add_push", "add_unlockWrite", "upd_find", "upd_title",
                     "upd_author", "upd_count", "upd_unlockWrite",
                     "upd_nf_unlockWrite", "rm_find", "rm_unlockWrite",
                     "rm_nf_unlockWrite", "b_find", "b_refind", "b_commit",
                     "b_push", "b_nf_unlockWrite", "b_oos_unlockWrite",
                     "b_unlockWrite", "b_un_unlockWrite", "r_find", "r_erase",
                     "r_nf_unlockWrite", "r_ok_unlockWrite", "r_nb_unlockWrite",
                     "dls_unlockWrite"}
\* Statements a thread is at while it holds the read lock of booksLock.
ReadLockedSites == {"list_read", "list_unlockRead", "chk_read", "chk_unlockRead",
                    "b_pred_eval", "b_predT_unlockRead", "b_predF_unlockRead"}
\* A Borrow suspended in the stock wait of lines 896-902.
Suspended(t) == pc[t] \in {"b_blocked", "b_woken", "b_wait"}

\* C1: a completed Borrow or Return leaves, for every item, count plus the
\* number of ledger entries for the item (over all accounts) as it was when
\* the operation started.
C1_LoanConservation ==
    \A t \in Sessions :
        (pc[t] \in RetSites /\ sum0[t] # <<>>)
            => \A i \in 1..Len(books) : ItemSum(i) = sum0[t][i]

\* C2: every catalog record has count >= 0 in every reachable state.
C2_CountNonNegative ==
    \A i \in 1..Len(books) : books[i].count >= 0

\* C5: a Return succeeds for an account on an item only if that account's
\* session completed a Borrow of the same item that no Return of it matched.
C5_ReturnOnlyBorrowed ==
    [][\A t \in Sessions :
          (pc[t] = "r_find" /\ pc'[t] = "r_erase")
              => held[sess[t]][books[findBookIndex(title[t])].key] > 0]_vars

\* C6: a Borrow suspended waiting for stock holds none of the locks that
\* returnBook takes (io_mutex at line 928, then the write lock), so that a
\* Return by another session can lock, run and complete.
C6_ReturnNotBlocked ==
    \A t \in Sessions :
        pc[t] = "b_blocked" => (pc[t] \notin WriteLockedSites /\ io_mutex # t)

\* C9: a Borrow returns only as Ok, NotFound or Busy: it never returns
\* "Still unavailable", without a copy and without NotFound.
C9_BorrowOutcomes ==
    \A t \in Sessions : pc[t] # "ret_Unavailable"

\* C10: a successful Borrow decrements the count of the resolved record by
\* exactly 1 and appends its id once to one ledger, both in one hold of the
\* write lock: while the count is decremented and the id not yet appended,
\* the borrower holds the write lock and no other thread holds the read or
\* the write lock.
C10_BorrowAtomic ==
    /\ [](\A t \in Sessions :
            pc[t] = "b_push" =>
                /\ writerActive
                /\ activeReaders = 0
                /\ \A u \in Sessions \ {t} :
                      pc[u] \notin WriteLockedSites \cup ReadLockedSites)
    /\ [][\A t \in Sessions :
            /\ (pc[t] \in {"b_commit", "b_refind"} /\ pc'[t] = "b_push") =>
                  /\ books' = [books EXCEPT ![idx'[t]].count = @ - 1]
                  /\ idx'[t] = findBookIndex(title[t])
                  /\ ledger' = ledger
            /\ (pc[t] = "b_push" /\ pc'[t] # "b_push") =>
                  /\ pc'[t] = "b_unlockWrite"
                  /\ books' = books
                  /\ \E a \in DOMAIN ledger :
                        ledger' = [ledger EXCEPT ![a] = Append(@, books[idx[t]].id)]
            /\ (pc[t] = "b_unlockWrite" /\ pc'[t] # "b_unlockWrite") =>
                  /\ pc'[t] = "ret_Ok"
                  /\ ~writerActive'
                  /\ books' = books /\ ledger' = ledger]_vars

\* A Borrow between its decrement and its push while displayLockStatus of
\* another session found the write lock held.
C10_Witness ==
    \E t, u \in Sessions : pc[t] = "b_push" /\ pc[u] = "dls_held"

\* C11: a Borrow or Return reads and modifies only the ledger of the account
\* that issued it: whenever borrowBook or returnBook is about to consult or
\* change accounts[uid].borrowedBookIds (lines 913, 947-954), uid is the
\* account of the session that runs the operation.
C11_OwnLedgerOnly ==
    \A t \in Sessions :
        pc[t] \in {"b_push", "r_find", "r_erase"} => uid[t] = sess[t]

\* C12: a Return by an account whose ledger does not hold the id of the
\* resolved record goes to the NotBorrowedByCaller exit, and from there to its
\* return no count and no ledger changes.
C12_ReturnNotBorrowed ==
    [][\A t \in Sessions :
          /\ (/\ pc[t] = "r_find" /\ pc'[t] # "r_find"
              /\ findBookIndex(title[t]) > 0
              /\ FindFirst(ledger[sess[t]], books[findBookIndex(title[t])].id) = 0)
                 => (pc'[t] = "r_nb_unlockWrite" /\ books' = books /\ ledger' = ledger)
          /\ (pc[t] \in {"r_nb_unlockWrite", "r_nb_notify"})
                 => (/\ pc'[t] \in {"r_nb_unlockWrite", "r_nb_notify", "ret_NotBorrowed"}
                     /\ books' = books /\ ledger' = ledger)]_vars

\* C13: a successful Return increments the count of the resolved record by
\* exactly 1 and erases exactly one instance of its id from the ledger of the
\* caller, all other ledgers and instances untouched, in one hold of the
\* write lock; bookCv.notify_all() comes after the write lock is released.
C13_ReturnAtomic ==
    /\ [](\A t \in Sessions :
            pc[t] = "r_erase" =>
                /\ writerActive
                /\ activeReaders = 0
                /\ \A u \in Sessions \ {t} :
                      pc[u] \notin WriteLockedSites \cup ReadLockedSites)
    /\ [][\A t \in Sessions :
            /\ (pc[t] = "r_find" /\ pc'[t] = "r_erase") =>
                  /\ books' = [books EXCEPT ![findBookIndex(title[t])].count = @ + 1]
                  /\ ledger' = ledger
            /\ (pc[t] = "r_erase" /\ pc'[t] # "r_erase") =>
                  /\ pc'[t] = "r_ok_unlockWrite"
                  /\ books' = books
                  /\ FindFirst(ledger[sess[t]], books[idx[t]].id) > 0
                  /\ ledger' = [ledger EXCEPT ![sess[t]] =
                                   EraseAt(@, FindFirst(@, books[idx[t]].id))]
            /\ (pc[t] = "r_ok_unlockWrite" /\ pc'[t] # "r_ok_unlockWrite") =>
                  /\ pc'[t] = "r_ok_notify"
                  /\ ~writerActive'
                  /\ books' = books /\ ledger' = ledger
            /\ (pc[t] = "r_ok_notify" /\ pc'[t] # "r_ok_notify") =>
                  /\ pc'[t] = "ret_Ok"
                  /\ books' = books /\ ledger' = ledger]_vars

\* C14: a Borrow whose tryLockWrite fails goes to its Busy return at once: it
\* never waits inside tryLockWrite, and the steps of the failed attempt change
\* no record, no ledger, and none of activeReaders, waitingWriters and
\* writerActive.
C14_BusyAtOnce ==
    /\ [](\A t \in Sessions :
            pc[t] = "b_try" =>
                /\ lk[t] \in {"call", "mtx"}
                /\ lk[t] = "mtx" => mtx = t)
    /\ [][\A t \in Sessions :
            (pc[t] = "b_try" /\ (pc'[t] # pc[t] \/ lk'[t] # lk[t])) =>
                /\ books' = books /\ ledger' = ledger
                /\ activeReaders' = activeReaders
                /\ waitingWriters' = waitingWriters
                /\ IF writerActive' /\ ~writerActive
                     THEN pc'[t] = "b_find"
                     ELSE /\ writerActive' = writerActive
                          /\ pc'[t] \in {"b_try", "ret_Busy"}]_vars

\* A Borrow at its Busy return while another session holds the write lock.
C14_Witness ==
    \E t \in Sessions : pc[t] = "ret_Busy" /\ writerActive

\* C15: a Borrow goes to its Busy return only from a state in which a reader
\* or a writer holds the lock.
C15_BusyOnlyWhenHeld ==
    [][\A t \in Sessions :
          (pc[t] = "b_try" /\ pc'[t] = "ret_Busy")
              => (writerActive \/ activeReaders > 0)]_vars

\* C16: the lock is held exactly by the operations that are between their
\* acquire and their release: writerActive iff some session is in a
\* write-locked section, activeReaders is the number of sessions in a
\* read-locked section; so with every session at its menu, at a return or not
\* started, there is no active reader and no active writer.
C16_LockReleased ==
    /\ writerActive <=> (\E t \in Sessions : pc[t] \in WriteLockedSites)
    /\ activeReaders = Cardinality({t \in Sessions : pc[t] \in ReadLockedSites})
    /\ (\A t \in Sessions : pc[t] \in {"idle", "menu"} \cup RetSites)
           => (~writerActive /\ activeReaders = 0)

\* Every session back at its menu after a Borrow that took a copy.
C16_Witness ==
    /\ \A t \in Sessions : pc[t] = "menu"
    /\ TotalLoans > 0
    /\ ~writerActive /\ activeReaders = 0

\* C17: the id addBook gives a record is greater than every id addBook gave
\* before.
C17_IdsIncrease ==
    [][\A t \in Sessions :
          (pc[t] = "add_push" /\ pc'[t] # "add_push")
              => books'[Len(books')].id > maxIssued]_vars

\* C18: no step of tryLockWrite changes waitingWriters, and a tryLockWrite
\* that returns false leaves activeReaders, waitingWriters and writerActive
\* as they were.
C18_TryLockFrame ==
    [][\A t \in Threads :
          (pc[t] = "h_tryLockWrite" /\ (pc'[t] # pc[t] \/ lk'[t] # lk[t])) =>
              /\ waitingWriters' = waitingWriters
              /\ pc'[t] \in {"h_tryLockWrite", "h_writing", "idle"}
              /\ pc'[t] = "h_writing" => (~writerActive /\ writerActive')
              /\ pc'[t] # "h_writing" =>
                    /\ activeReaders' = activeReaders
                    /\ writerActive' = writerActive]_vars

\* A tryLockWrite that owns mtx and is about to fail while a writer is queued.
C18_Witness ==
    \E t \in Threads :
        /\ pc[t] = "h_tryLockWrite" /\ lk[t] = "mtx"
        /\ waitingWriters > 0
        /\ writerActive \/ activeReaders > 0

\* C19: a lockRead that evaluates its predicate with no writer active and no
\* writer waiting completes (the caller becomes a reader) however many
\* readers hold the lock.
C19_ReadersShare ==
    [][\A t \in Threads :
          (/\ pc[t] = "h_lockRead" /\ lk[t] \in {"mtx", "chk"}
           /\ (pc'[t] # pc[t] \/ lk'[t] # lk[t])
           /\ ~writerActive /\ waitingWriters = 0)
              => (pc'[t] = "h_reading" /\ activeReaders' = activeReaders + 1)]_vars

\* Two threads hold the read lock at the same time.
C19_Witness ==
    /\ Cardinality({t \in Threads : pc[t] = "h_reading"}) >= 2
    /\ activeReaders >= 2

\* C20: under fair scheduling, with every holder releasing, a thread queued
\* in lockWrite (waitingWriters incremented, waiting for the lock) eventually
\* holds the write lock.
C20_WriterProgress ==
    \A t \in Threads : (t \in QueuedWriters) ~> (pc[t] = "h_writing")

\* ------------------------------------------------ reader starvation (C21)
\* A schedule of the RWLock's callers under which writers keep queuing: the
\* thread StarvedReader calls lockRead while a writer holds the lock and no
\* other reader is on its way in, and from then on the other threads call only
\* lockWrite and tryLockWrite, and a write holder calls unlockWrite once
\* another writer is counted in waitingWriters.  Every step is a step of
\* NextRW, the RWLock methods themselves (RWStep) are unchanged.
StarvedReader == 1

StarveCall(t, s) ==
    /\ HCall(t, s)
    /\ IF t = StarvedReader
          THEN /\ s = "h_lockRead"
               /\ \E w \in Threads : pc[w] = "h_writing"
               /\ \A u \in Threads \ {t} : pc[u] # "h_lockRead"
          ELSE pc[StarvedReader] = "h_lockRead" => s # "h_lockRead"

StarveRelease(t) ==
    /\ HRelease(t)
    /\ (pc[StarvedReader] = "h_lockRead" /\ pc[t] = "h_writing")
          => waitingWriters > 0

NextStarve ==
    \/ \E t \in Threads : \E s \in {"h_lockRead", "h_lockWrite", "h_tryLockWrite"} :
          StarveCall(t, s)
    \/ \E t \in Threads : StarveRelease(t)
    \/ \E t \in Threads : RWStep(t)
    \/ \E t \in Threads : SpuriousWake(t)

\* Every thread is scheduled fairly inside the RWLock methods (as in FairRW),
\* every holder releases, and the writers call lockWrite again and again.
\* All three are fairness conditions on sub-actions of NextStarve, so every
\* finite run of NextStarve extends to a fair one.
FairStarve ==
    \A t \in Threads :
        /\ SF_vars(RWStep(t))
        /\ WF_vars(StarveRelease(t))
        /\ SF_vars(StarveCall(t, "h_lockWrite"))

SpecStarve == Init /\ [][NextStarve]_vars /\ FairStarve

\* C21: writer preference allows reader starvation.  In every fair run of the
\* schedule above, the thread blocked in lockRead never completes it, although
\* every write holder releases the lock and writers keep queuing in lockWrite.
C21_ReaderStarvation ==
    /\ [](pc[StarvedReader] # "h_reading")
    /\ \A t \in Threads :
          (pc[StarvedReader] = "h_lockRead" /\ pc[t] = "h_writing")
             ~> (pc[t] = "h_unlockWrite")
    /\ (pc[StarvedReader] = "h_lockRead") ~> (QueuedWriters # {})

\* The reader is suspended in lockRead after a holder has released and another
\* writer has taken the lock over.
C21_Witness ==
    /\ pc[StarvedReader] = "h_lockRead"
    /\ lk[StarvedReader] = "wait"
    /\ ~writerActive
    /\ waitingWriters > 0

\* Statements of borrowBook's stock wait, lines 896-902: from the lock of
\* cvMutex to the block on bookCv and the re-evaluation after a wake.
StockWaitSites ==
    {"b_cvlock", "b_pred_lockRead", "b_pred_eval", "b_predF_unlockRead",
     "b_wait", "b_blocked", "b_woken"}

\* C22: a wake that does not come with stock for the waiter's own title does
\* not satisfy a suspended Borrow.  While the record titled T has count 0, a
\* Borrow in the stock wait on T stays in the stock wait, whatever woke it, and
\* no step changes a count or a ledger.
C22_IrrelevantWake ==
    [][\A t \in Sessions :
          (/\ pc[t] \in StockWaitSites
           /\ findBookIndex(title[t]) > 0
           /\ books[findBookIndex(title[t])].count = 0)
             => /\ pc'[t] \in StockWaitSites
                /\ books' = books
                /\ ledger' = ledger]_vars

\* A Borrow on T has been woken while T has no copy and another title has one.
C22_Witness ==
    \E t \in Sessions :
        /\ pc[t] = "b_woken"
        /\ findBookIndex(title[t]) > 0
        /\ books[findBookIndex(title[t])].count = 0
        /\ \E i \in 1..Len(books) :
              books[i].title # title[t] /\ books[i].count > 0

\* C23: updateBook writes title, author and count inside one hold of the
\* write lock.  While a record has its new title but not yet its new count, the
\* updating session holds the write lock, no reader is active, and no other
\* session is at a statement that reads or writes the catalog.
C23_UpdateAtomic ==
    \A t \in Sessions :
        pc[t] \in {"upd_author", "upd_count"}
            => /\ writerActive
               /\ activeReaders = 0
               /\ \A u \in Sessions \ {t} :
                     pc[u] \notin (ReadLockedSites \cup WriteLockedSites)

\* An Update has written a new title and not yet the count, while another
\* session is logged in.
C23_Witness ==
    \E t \in Sessions :
        /\ pc[t] = "upd_count"
        /\ books[idx[t]].title # title[t]
        /\ \E u \in Sessions \ {t} : pc[u] = "menu"

\* C24: updateBook and removeBook with a title no record has end with "Book
\* not found." and change neither the catalog nor any ledger; removeBook with
\* a title some record has erases the first record with that title, keeps
\* every other record in order, and changes no ledger.
C24_NotFoundAndRemove ==
    [][\A t \in Sessions :
          LET present == \E i \in 1..Len(books) : books[i].title = title[t]
              first == CHOOSE i \in 1..Len(books) :
                          /\ books[i].title = title[t]
                          /\ \A j \in 1..(i - 1) : books[j].title # title[t]
          IN  /\ (pc[t] \in {"upd_find", "rm_find"} /\ ~present)
                    => /\ pc'[t] \in {pc[t], "upd_nf_unlockWrite", "rm_nf_unlockWrite"}
                       /\ books' = books
                       /\ ledger' = ledger
              /\ pc[t] \in {"upd_nf_unlockWrite", "rm_nf_unlockWrite"}
                    => /\ pc'[t] \in {pc[t], "ret_NotFound"}
                       /\ books' = books
                       /\ ledger' = ledger
              /\ (pc[t] = "rm_find" /\ present /\ pc'[t] # pc[t])
                    => /\ pc'[t] = "rm_unlockWrite"
                       /\ Len(books') = Len(books) - 1
                       /\ \A j \in 1..Len(books') :
                             books'[j] = IF j < first THEN books[j] ELSE books[j + 1]
                       /\ ledger' = ledger]_vars

\* Remove of a title two records had: the first was erased, the second is
\* still there.
C24_Witness ==
    \E t \in Sessions :
        /\ pc[t] = "rm_unlockWrite"
        /\ Len(books) = 1
        /\ books[1].title = title[t]
        /\ books[1].id = 2

\* C25: listAllBooks holds the read lock from before it prints the first
\* record until after it has printed the last.  At every step taken while a
\* session is in the printing loop a reader is counted, no writer is active,
\* no other session is at a statement that writes the catalog, and the step
\* leaves the catalog as it is: what is printed is one state of the catalog.
C25_ListSnapshot ==
    [][\A t \in Sessions :
          pc[t] = "list_read"
             => /\ activeReaders >= 1
                /\ ~writerActive
                /\ \A u \in Sessions \ {t} : pc[u] \notin WriteLockedSites
                /\ books' = books]_vars

\* The listing is between two records while another session is logged in.
C25_Witness ==
    \E t \in Sessions :
        /\ pc[t] = "list_read"
        /\ idx[t] = 1
        /\ Len(books) = 2
        /\ \E u \in Sessions \ {t} : pc[u] = "menu"

\* ------------------------------------------------ re-entry of Update (C26)
\* Statements of updateBook, from its lock of io_mutex to its last unlock,
\* and "upd_re_io": line 820 of an updateBook called from inside updateBook.
UpdateSites ==
    {"upd_lockWrite", "upd_find", "upd_title", "upd_author", "upd_count",
     "upd_unlockWrite", "upd_nf_unlockWrite", "upd_re_io"}

\* The call path the re-entrant updateMutex is there for: the thread that is
\* inside updateBook, between lines 825 and 839, calls updateBook again.
\* Line 819 succeeds, because updateMutex is a recursive_mutex this thread
\* owns.  Line 820 locks io_mutex, a plain std::mutex: the thread stays at
\* that line as long as io_mutex has an owner.  (When the owner is the thread
\* itself the lock() is undefined: it never returns or it throws
\* std::system_error; in neither case does the inner updateBook go on, which
\* is what staying at "upd_re_io" stands for.)
UpdReenter(t) ==
    /\ pc[t] \in {"upd_find", "upd_title", "upd_author", "upd_count"}
    /\ updateMutex = t
    /\ Goto(t, "upd_re_io")
    /\ UNCHANGED <<rwVars, libVars, monVars>>

NextReenter ==
    \/ Next
    \/ \E t \in Sessions : UpdReenter(t)

SpecReenter == Init /\ [][NextReenter]_vars

\* C26: at most one session is inside updateBook, and a thread that enters
\* updateBook again from inside it is never stopped at a lock it owns itself.
C26_UpdateReentrant ==
    /\ Cardinality({t \in Sessions : pc[t] \in UpdateSites}) <= 1
    /\ \A t \in Sessions : ~(pc[t] = "upd_re_io" /\ io_mutex = t)

\* C27: displayLockStatus goes on to print "free" exactly from a probe that
\* took the lock (no writer active, no reader active) and released it again,
\* and to print "held" exactly from a probe that failed (mtx busy, a writer
\* active or a reader active) and changed nothing.  Its own steps leave
\* activeReaders and waitingWriters as they are and writerActive false after a
\* successful probe, as it was before it.
C27_LockStatus ==
    [][\A t \in Sessions :
          /\ (pc[t] = "dls_try" /\ pc'[t] # pc[t])
                => \/ /\ pc'[t] = "dls_unlockWrite"
                      /\ ~writerActive /\ activeReaders = 0
                      /\ writerActive'
                      /\ UNCHANGED <<activeReaders, waitingWriters>>
                   \/ /\ pc'[t] = "dls_held"
                      /\ mtx \notin {0, t} \/ writerActive \/ activeReaders > 0
                      /\ UNCHANGED <<activeReaders, waitingWriters, writerActive>>
          /\ (pc[t] = "dls_unlockWrite" /\ pc'[t] # pc[t])
                => /\ pc'[t] = "dls_free"
                   /\ writerActive /\ ~writerActive'
                   /\ UNCHANGED <<activeReaders, waitingWriters>>
          /\ (pc[t] \in {"dls_free", "dls_held"} /\ pc'[t] # pc[t])
                => /\ pc'[t] = "menu"
                   /\ UNCHANGED rwVars]_vars

\* A probe that succeeded has released the lock and is about to print, while
\* another session is in an operation of its own.
C27_Witness ==
    \E t \in Sessions :
        /\ pc[t] = "dls_free"
        /\ ~writerActive
        /\ \E u \in Sessions \ {t} : pc[u] \notin {"idle", "menu"}

\* ------------------------------------------- hospital system: LockMonitor
\* The three resources, each named by its flag in LockMonitor (lines 41-43).
Resources == {"patientLock", "appointmentLock", "recordLock"}

\* Statements of a manager operation that sets its flag and takes the
\* manager's mutex with unique_lock (registerPatient, removePatient,
\* scheduleAppointment, cancelAppointment, listAppointments, addRecord,
\* viewRecord): at the lock, in the body, at the closing brace.
XLock(r) ==
    CASE r = "patientLock" -> "pat_x_lock"
      [] r = "appointmentLock" -> "app_x_lock"
      [] r = "recordLock" -> "rec_x_lock"
XBody(r) ==
    CASE r = "patientLock" -> "pat_x_body"
      [] r = "appointmentLock" -> "app_x_body"
      [] r = "recordLock" -> "rec_x_body"
XEnd(r) ==
    CASE r = "patientLock" -> "pat_x_end"
      [] r = "appointmentLock" -> "app_x_end"
      [] r = "recordLock" -> "rec_x_end"
\* Inside updatePatient, updateAppointment, updateRecord after try_lock.
TryBody(r) ==
    CASE r = "patientLock" -> "pat_upd"
      [] r = "appointmentLock" -> "app_upd"
      [] r = "recordLock" -> "rec_upd"

\* The manager's mutex can be locked exclusively.
MutexFree(r) ==
    CASE r = "patientLock" -> patientMutex.writer = 0 /\ patientMutex.readers = {}
      [] r = "appointmentLock" -> appMutex = 0
      [] r = "recordLock" -> recordMutex = 0

\* The manager's mutex gets exclusive owner o (0: it is unlocked).
SetOwner(r, o) ==
    /\ patientMutex' = IF r = "patientLock"
                         THEN [patientMutex EXCEPT !.writer = o]
                         ELSE patientMutex
    /\ appMutex' = IF r = "appointmentLock" THEN o ELSE appMutex
    /\ recordMutex' = IF r = "recordLock" THEN o ELSE recordMutex

\* First statement of the operation, lines 76, 101, 133, 161, 173, 192, 220:
\* lockMonitor.<flag> = true.
MgrCall(t, r) ==
    /\ pc[t] = "idle"
    /\ lockMonitor' = [lockMonitor EXCEPT ![r] = TRUE]
    /\ Goto(t, XLock(r))
    /\ UNCHANGED <<rwVars, libVars, patientMutex, appMutex, recordMutex>>

\* unique_lock lock(mutex): blocks until the mutex is free.
MgrLock(t, r) ==
    /\ pc[t] = XLock(r)
    /\ MutexFree(r)
    /\ SetOwner(r, t)
    /\ Goto(t, XBody(r))
    /\ UNCHANGED <<rwVars, libVars, lockMonitor>>

\* The body, ending with lockMonitor.<flag> = false (lines 81, 108, 139, 168,
\* 179, 200, 233).
MgrBody(t, r) ==
    /\ pc[t] = XBody(r)
    /\ lockMonitor' = [lockMonitor EXCEPT ![r] = FALSE]
    /\ Goto(t, XEnd(r))
    /\ UNCHANGED <<rwVars, libVars, patientMutex, appMutex, recordMutex>>

\* The closing brace: the unique_lock releases the mutex.
MgrUnlock(t, r) ==
    /\ pc[t] = XEnd(r)
    /\ SetOwner(r, 0)
    /\ Goto(t, "idle")
    /\ UNCHANGED <<rwVars, libVars, lockMonitor>>

\* listPatient, lines 112-119: the same with shared_lock on patientMutex.
ListCall(t) ==
    /\ pc[t] = "idle"
    /\ lockMonitor' = [lockMonitor EXCEPT !.patientLock = TRUE]
    /\ Goto(t, "pat_s_lock")
    /\ UNCHANGED <<rwVars, libVars, patientMutex, appMutex, recordMutex>>

ListLock(t) ==
    /\ pc[t] = "pat_s_lock"
    /\ patientMutex.writer = 0
    /\ patientMutex' = [patientMutex EXCEPT !.readers = @ \cup {t}]
    /\ Goto(t, "pat_s_body")
    /\ UNCHANGED <<rwVars, libVars, lockMonitor, appMutex, recordMutex>>

ListBody(t) ==
    /\ pc[t] = "pat_s_body"
    /\ lockMonitor' = [lockMonitor EXCEPT !.patientLock = FALSE]
    /\ Goto(t, "pat_s_end")
    /\ UNCHANGED <<rwVars, libVars, patientMutex, appMutex, recordMutex>>

ListUnlock(t) ==
    /\ pc[t] = "pat_s_end"
    /\ patientMutex' = [patientMutex EXCEPT !.readers = @ \ {t}]
    /\ Goto(t, "idle")
    /\ UNCHANGED <<rwVars, libVars, lockMonitor, appMutex, recordMutex>>

\* updatePatient, updateAppointment, updateRecord (lines 85-97, 144-157,
\* 204-216): try_lock, no flag; on failure the "busy" message is printed.
TryCall(t, r) ==
    /\ pc[t] = "idle"
    /\ IF MutexFree(r)
         THEN SetOwner(r, t) /\ Goto(t, TryBody(r))
         ELSE /\ Goto(t, "mgr_busy")
              /\ UNCHANGED <<patientMutex, appMutex, recordMutex>>
    /\ UNCHANGED <<rwVars, libVars, lockMonitor>>

TryDone(t, r) ==
    /\ pc[t] = TryBody(r)
    /\ SetOwner(r, 0)
    /\ Goto(t, "idle")
    /\ UNCHANGED <<rwVars, libVars, lockMonitor>>

TryBusy(t) ==
    /\ pc[t] = "mgr_busy"
    /\ Goto(t, "idle")
    /\ UNCHANGED <<rwVars, libVars, monVars>>

\* LockMonitor::checkDeadlocks, lines 54-61.  The condition of line 56 loads
\* the three atomic flags one after the other, left to right, and stops at
\* the first that is false.
CdReadSites == {"cd_patientLock", "cd_appointmentLock", "cd_recordLock"}
CdSites == CdReadSites \cup {"cd_suspect", "cd_clear"}

CdCall(t) ==
    /\ pc[t] = "idle"
    /\ Goto(t, "cd_patientLock")
    /\ UNCHANGED <<rwVars, libVars, monVars>>

\* One load of line 56.
CdRead(t) ==
    /\ pc[t] \in CdReadSites
    /\ IF pc[t] = "cd_patientLock"
         THEN (IF lockMonitor.patientLock
                 THEN Goto(t, "cd_appointmentLock")
                 ELSE Goto(t, "cd_clear"))
         ELSE IF pc[t] = "cd_appointmentLock"
                THEN (IF lockMonitor.appointmentLock
                        THEN Goto(t, "cd_recordLock")
                        ELSE Goto(t, "cd_clear"))
                ELSE (IF lockMonitor.recordLock
                        THEN Goto(t, "cd_suspect")
                        ELSE Goto(t, "cd_clear"))
    /\ UNCHANGED <<rwVars, libVars, monVars>>

\* Line 57 ("Potential deadlock") or line 59 ("No deadlocks detected.").
CdPrint(t) ==
    /\ pc[t] \in {"cd_suspect", "cd_clear"}
    /\ Goto(t, "idle")
    /\ UNCHANGED <<rwVars, libVars, monVars>>

\* Threads that call the manager operations and checkDeadlocks.
NextMon ==
    \/ \E t \in Threads : \E r \in Resources : MgrCall(t, r)
    \/ \E t \in Threads : \E r \in Resources : MgrLock(t, r)
    \/ \E t \in Threads : \E r \in Resources : MgrBody(t, r)
    \/ \E t \in Threads : \E r \in Resources : MgrUnlock(t, r)
    \/ \E t \in Threads : ListCall(t)
    \/ \E t \in Threads : ListLock(t)
    \/ \E t \in Threads : ListBody(t)
    \/ \E t \in Threads : ListUnlock(t)
    \/ \E t \in Threads : \E r \in Resources : TryCall(t, r)
    \/ \E t \in Threads : \E r \in Resources : TryDone(t, r)
    \/ \E t \in Threads : TryBusy(t)
    \/ \E t \in Threads : CdCall(t)
    \/ \E t \in Threads : CdRead(t)
    \/ \E t \in Threads : CdPrint(t)

SpecMon == Init /\ [][NextMon]_vars

\* C28: checkDeadlocks decides for "Potential deadlock" if and only if the
\* three flags are all true at the moment it decides, and for "No deadlocks
\* detected." otherwise; its steps change no flag and no mutex.
C28_DeadlockCheck ==
    [][\A t \in Threads :
          LET allBusy == /\ lockMonitor.patientLock
                         /\ lockMonitor.appointmentLock
                         /\ lockMonitor.recordLock
          IN  /\ (pc[t] \in CdReadSites /\ pc'[t] = "cd_suspect") => allBusy
              /\ (pc[t] \in CdReadSites /\ pc'[t] = "cd_clear") => ~allBusy
              /\ (pc[t] \in CdSites /\ pc'[t] # pc[t]) => UNCHANGED monVars]_vars

\* C29: the records that are in the catalog at the same time have pairwise
\* distinct ids.
C29_IdsDistinct ==
    \A i, j \in 1..Len(books) : i # j => books[i].id # books[j].id

\* C31: every id in an account's ledger is the id of a record that is in the
\* catalog.
C31_LedgerIdsInCatalog ==
    \A a \in DOMAIN ledger : \A k \in 1..Len(ledger[a]) :
        \E i \in 1..Len(books) : books[i].id = ledger[a][k]

\* C32: tryLockWrite does not overtake queued writers.  A tryLockWrite (of a
\* direct caller, of borrowBook or of displayLockStatus) takes the write lock
\* only when no thread is counted in waitingWriters.
C32_TryLockNoOvertake ==
    [][\A t \in Threads :
          (pc[t] \in TryLockWriteSites /\ pc'[t] = After(pc[t]))
              => waitingWriters = 0]_vars

\* C33: the three fields of RWLock count what they stand for.  activeReaders
\* is the number of threads that hold the read lock, waitingWriters is the
\* number of threads blocked inside lockWrite, writerActive is true exactly
\* when one thread holds the write lock, and no counter is negative.
C33_CountersExact ==
    /\ activeReaders = Cardinality(ReadHolders)
    /\ waitingWriters = Cardinality(QueuedWriters)
    /\ writerActive <=> Cardinality(WriteHolders) = 1
    /\ ~writerActive <=> WriteHolders = {}
    /\ activeReaders >= 0
    /\ waitingWriters >= 0

\* Two readers hold the lock and a writer is blocked in lockWrite.
C33_Witness ==
    /\ activeReaders = 2
    /\ waitingWriters = 1
    /\ \E t \in Threads : pc[t] = "h_lockWrite" /\ lk[t] = "wait"

\* C34: each LockMonitor busy flag tracks its resource.  Whenever a thread is
\* waiting for or holds a manager's mutex inside one of the operations that
\* set the flag (for patientMutex also the shared listPatient), and has not
\* yet executed its own closing "flag = false", the flag is true, also when
\* two such operations overlap.
C34_FlagTracksResource ==
    \A r \in Resources : \A t \in Threads :
        (\/ pc[t] \in {XLock(r), XBody(r)}
         \/ (r = "patientLock" /\ pc[t] \in {"pat_s_lock", "pat_s_body"}))
            => lockMonitor[r]

=============================================================================
